---- MODULE Spec2Model ----
(***************************************************************************)
(* The proof-of-work miner of src/src/mini_miner.rs.                       *)
(*                                                                         *)
(*   SpecCD    check_difficulty / get_mask applied to bounded digests      *)
(*   Spec      MiniMiner::solve: the parallel find_any search over the     *)
(*             nonce range, one step per atomic access of a worker         *)
(*   FairSpec  Spec with weak fairness of Next (the pool keeps running     *)
(*             its workers until the search call returns)                  *)
(***************************************************************************)
EXTENDS Integers, Sequences, FiniteSets, TLC

(***************************************************************************)
(* Bounds of the model.                                                    *)
(***************************************************************************)
\* The nonce range 0..=i32::MAX of the source is modelled as 0..MaxNonce.
MaxNonce == 2
\* Digests handed to check_difficulty have 0..MaxLen bytes.
MaxLen == 4
\* Difficulties run up to MaxExcess bits beyond the digest's bit length.
MaxExcess == 2

(***************************************************************************)
(* Option<T>.                                                              *)
(***************************************************************************)
None == [tag |-> "None"]

Some(v) == [tag |-> "Some", val |-> v]

(***************************************************************************)
(* u8 / u32 arithmetic.                                                    *)
(***************************************************************************)
RECURSIVE BitAnd(_, _)
\* a & b on non-negative integers.
BitAnd(a, b) ==
    IF a = 0 \/ b = 0 THEN 0
    ELSE (a % 2) * (b % 2) + 2 * BitAnd(a \div 2, b \div 2)

\* u32::saturating_sub
saturating_sub(a, b) == IF a >= b THEN a - b ELSE 0

(***************************************************************************)
(* get_mask and its mutants.                                               *)
(***************************************************************************)
\* mutant: the mask covers the low bits of the byte instead of the high bits
get_mask_low_bits(difficulty) ==
    CASE difficulty = 0 -> 0
      [] difficulty = 1 -> 1
      [] difficulty = 2 -> 3
      [] difficulty = 3 -> 7
      [] difficulty = 4 -> 15
      [] difficulty = 5 -> 31
      [] difficulty = 6 -> 63
      [] difficulty = 7 -> 127
      [] OTHER -> 255

\* mutant: the table is shifted by one entry (the mask of d covers d-1 bits)
get_mask_shifted(difficulty) ==
    CASE difficulty = 0 -> 0
      [] difficulty = 1 -> 0
      [] difficulty = 2 -> 128
      [] difficulty = 3 -> 192
      [] difficulty = 4 -> 224
      [] difficulty = 5 -> 240
      [] difficulty = 6 -> 248
      [] difficulty = 7 -> 252
      [] OTHER -> 254

get_mask(difficulty) ==
    CASE difficulty = 0 -> 0      \* 0b0000_0000
      [] difficulty = 1 -> 128    \* 0b1000_0000
      [] difficulty = 2 -> 192    \* 0b1100_0000
      [] difficulty = 3 -> 224    \* 0b1110_0000
      [] difficulty = 4 -> 240    \* 0b1111_0000
      [] difficulty = 5 -> 248    \* 0b1111_1000
      [] difficulty = 6 -> 252    \* 0b1111_1100
      [] difficulty = 7 -> 254    \* 0b1111_1110
      [] OTHER -> 255             \* 0b1111_1111

(***************************************************************************)
(* check_difficulty: the while loop, index counted from 0 as in the source.*)
(***************************************************************************)
RECURSIVE check_difficulty_loop(_, _, _)
check_difficulty_loop(hash, difficulty, index) ==
    IF difficulty > 0 /\ index < Len(hash)
    THEN LET current_byte == hash[index + 1]
             mask == get_mask(difficulty)
         IN  IF BitAnd(current_byte, mask) # 0
             THEN FALSE
             ELSE check_difficulty_loop(hash, saturating_sub(difficulty, 8), index + 1)
    ELSE difficulty = 0

\* mutant: the remaining requirement is reduced by 8 without the floor at 0,
\* and the loop runs while it is non-zero
RECURSIVE check_difficulty_no_floor_loop(_, _, _)
check_difficulty_no_floor_loop(hash, difficulty, index) ==
    IF difficulty # 0 /\ index < Len(hash)
    THEN IF BitAnd(hash[index + 1], get_mask(IF difficulty < 0 THEN 8 ELSE difficulty)) # 0
         THEN FALSE
         ELSE check_difficulty_no_floor_loop(hash, difficulty - 8, index + 1)
    ELSE difficulty = 0

check_difficulty_no_floor(hash, difficulty) ==
    check_difficulty_no_floor_loop(hash, difficulty, 0)

check_difficulty(hash, difficulty) == check_difficulty_loop(hash, difficulty, 0)

(***************************************************************************)
(* The reference the claims are stated against: the number of leading zero *)
(* bits of a digest, counted from the most significant bit of byte 0.      *)
(***************************************************************************)
Pow2(k) == CASE k = 0 -> 1 [] k = 1 -> 2 [] k = 2 -> 4 [] k = 3 -> 8
             [] k = 4 -> 16 [] k = 5 -> 32 [] k = 6 -> 64 [] OTHER -> 128

\* bit k of the digest, k = 0 the most significant bit of byte 0
BitAt(hash, k) == (hash[(k \div 8) + 1] \div Pow2(7 - (k % 8))) % 2

BitLength(hash) == 8 * Len(hash)

RECURSIVE ZeroRun(_, _)
\* the length of the run of zero bits that starts at bit k
ZeroRun(hash, k) ==
    IF k < BitLength(hash) /\ BitAt(hash, k) = 0 THEN 1 + ZeroRun(hash, k + 1) ELSE 0

LeadingZeroBits(hash) == ZeroRun(hash, 0)

(***************************************************************************)
(* State.                                                                  *)
(***************************************************************************)
VARIABLES
    \* check_difficulty applied to one digest (SpecCD)
    hash,          \* the digest handed to check_difficulty
    cd_difficulty, \* the difficulty handed to check_difficulty
    cd_result,     \* what check_difficulty returned
    cd_pc,         \* "call" before the call, "returned" after it, "off" in Spec
    \* MiniMiner::solve (Spec)
    problem,       \* the MiniMinerProblem handed to solve
    sha,           \* SHA-256 on the strings blocks of this problem encode to
    splits,        \* where the pool splits the range: a leaf starts at 0 and at each split
    block,         \* the template Block built by Block::from
    heap,          \* the live Vec<Data> allocations: id -> contents
    found,         \* find_any's shared flag
    leaf,          \* per leaf: status, next nonce, the folder's item
    pc,            \* per worker: "idle", "map", "full", "find"
    cur,           \* per worker: the leaf it is folding
    cand,          \* per worker: the candidate Block in flight
    found_block,   \* the Option<Block> find_any returned
    result,        \* what solve returned
    main_pc,       \* "search", "match", "done"
    \* observations of the run
    evals,         \* per nonce: how often is_block_valid was applied to its candidate
    hashed,        \* the strings calculate_sha256 was applied to
    built_late     \* per worker: its candidate was built when the flag was already set

cd_vars == <<hash, cd_difficulty, cd_result, cd_pc>>

miner_vars ==
    <<problem, sha, splits, block, heap, found, leaf, pc, cur, cand,
      found_block, result, main_pc, evals, hashed, built_late>>

vars == <<cd_vars, miner_vars>>

(***************************************************************************)
(* Data, Block and Cow<Vec<Data>>.                                         *)
(***************************************************************************)
Workers == {"w1", "w2"}

\* struct Data and the entry sequences of the problems explored
Data(data, nonce) == [data |-> data, nonce |-> nonce]

DataChoices == {<<>>, <<Data("a", 7), Data("b", 1)>>}

\* the nonce field of the input block: absent, or some integer
InputNonces == {None, Some(1), Some(-7)}

Owned(alloc) == [kind |-> "Owned", alloc |-> alloc]

\* &*cow : the Vec<Data> a Cow refers to
Deref(cow, h) == h[cow.alloc]

\* The address the allocator hands out for the copy made for a nonce: the
\* template's Vec<Data> lives at 0, and no two candidates share a nonce.
Fresh(nonce) == nonce + 1

\* mutant: the clone loses the last entry
CowCloneTruncated(cow, h, a) ==
    IF cow.kind = "Borrowed"
    THEN [cow |-> cow, heap |-> h]
    ELSE [cow |-> Owned(a),
          heap |-> [x \in DOMAIN h \cup {a} |->
                       IF x = a
                       THEN [i \in 1..(Len(h[cow.alloc]) - 1) |-> h[cow.alloc][i]]
                       ELSE h[x]]]

\* Cow::clone (self.data.clone()): a Borrowed is copied as a reference, an
\* Owned is cloned with to_owned(), which allocates a new Vec<Data> (at a).
CowClone(cow, h, a) ==
    IF cow.kind = "Borrowed"
    THEN [cow |-> cow, heap |-> h]
    ELSE [cow |-> Owned(a),
          heap |-> [x \in DOMAIN h \cup {a} |->
                       IF x = a THEN h[cow.alloc] ELSE h[x]]]

\* dropping a Block frees the Vec<Data> it owns
Drop(b, h) ==
    IF b.data.kind = "Owned"
    THEN [x \in DOMAIN h \ {b.data.alloc} |-> h[x]]
    ELSE h

\* mutant: the candidate keeps the template's nonce field
with_nonce_keeps_field(self, nonce, h) ==
    LET c == CowClone(self.data, h, Fresh(nonce))
    IN  [block |-> [data |-> c.cow, nonce |-> self.nonce], heap |-> c.heap]

\* Block::with_nonce
with_nonce(self, nonce, h) ==
    LET c == CowClone(self.data, h, Fresh(nonce))
    IN  [block |-> [data |-> c.cow, nonce |-> Some(nonce)], heap |-> c.heap]

\* Block::from
Block_from(pb, a) == [data |-> Owned(a), nonce |-> pb.nonce]

(***************************************************************************)
(* serde_json::to_string(block): Block derives Serialize (an object with   *)
(* the keys data and nonce), Data derives Serialize_tuple (an array).      *)
(* These types always serialize, so the expect on the result never fires.  *)
(***************************************************************************)
JsonDataEntry(d) == "[\"" \o d.data \o "\"," \o ToString(d.nonce) \o "]"

RECURSIVE JsonSeq(_, _)
JsonSeq(data, i) ==
    IF i > Len(data) THEN ""
    ELSE (IF i > 1 THEN "," ELSE "") \o JsonDataEntry(data[i]) \o JsonSeq(data, i + 1)

JsonOption(nonce) == IF nonce.tag = "None" THEN "null" ELSE ToString(nonce.val)

JsonBlock(data, nonce) ==
    "{\"data\":[" \o JsonSeq(data, 1) \o "],\"nonce\":" \o JsonOption(nonce) \o "}"

to_string(b, h) == JsonBlock(Deref(b.data, h), b.nonce)

(***************************************************************************)
(* calculate_sha256 and is_block_valid.  SHA-256 is an arbitrary fixed     *)
(* function, drawn in Init, from the strings that blocks of the problem    *)
(* encode to, to digests.                                                  *)
(***************************************************************************)
MinerDigests == {<<0, 64>>, <<0, 128>>}

MinerDifficulties == {0, 9, 17}

HashInputs(p) == {JsonBlock(p.block.data, Some(n)) : n \in 0..MaxNonce}

calculate_sha256(s) == sha[s]

is_block_valid(b, difficulty, h) ==
    LET s == to_string(b, h)
        hash_ == calculate_sha256(s)
    IN  check_difficulty(hash_, difficulty)

(***************************************************************************)
(* The range (0..=i32::MAX).into_par_iter(), split into leaves.            *)
(***************************************************************************)
Min(S) == CHOOSE x \in S : \A y \in S : x <= y

Max(S) == CHOOSE x \in S : \A y \in S : x >= y

\* mutant: the range 0..i32::MAX, which leaves out its last nonce
RangeEndExclusive == MaxNonce - 1

\* the last nonce of 0..=i32::MAX
RangeEnd == MaxNonce

LeafStarts == {0} \cup splits

LeafEnd(l) == Min({s \in splits : s > l} \cup {RangeEnd + 1}) - 1

(***************************************************************************)
(* Init: the state of solve when the search begins (lines 67-69 done).     *)
(***************************************************************************)
Running == [tag |-> "Running"]

Init ==
    /\ hash = <<>>
    /\ cd_difficulty = 0
    /\ cd_result = FALSE
    /\ cd_pc = "off"
    /\ problem \in [difficulty : MinerDifficulties,
                    block : [data : DataChoices, nonce : InputNonces]]
    /\ sha \in [HashInputs(problem) -> MinerDigests]
    /\ splits \in SUBSET (1..MaxNonce)
    /\ block = Block_from(problem.block, 0)
    /\ heap = (0 :> problem.block.data)
    /\ found = FALSE
    /\ leaf = [l \in LeafStarts |-> [status |-> "pending", next |-> l, item |-> None]]
    /\ pc = [w \in Workers |-> "idle"]
    /\ cur = [w \in Workers |-> 0]
    /\ cand = [w \in Workers |-> None]
    /\ found_block = None
    /\ result = Running
    /\ main_pc = "search"
    /\ evals = [n \in 0..MaxNonce |-> 0]
    /\ hashed = {}
    /\ built_late = [w \in Workers |-> FALSE]

(***************************************************************************)
(* The search: .map(|nonce| block.with_nonce(nonce)).find_any(|block|      *)
(* is_block_valid(&block, difficulty)), with rayon's find_any as solve     *)
(* uses it.  The range is split into contiguous leaves that the pool's     *)
(* threads take or steal in any order.  The consumer holds one AtomicBool  *)
(* shared by all leaves; a leaf is skipped when the flag is set as it is   *)
(* taken.  A leaf is folded as                                             *)
(*     iter.map(map_op).take_while(|_| !found.load()).find(find_op)        *)
(* followed by found.store(true) when an item was found: per nonce the     *)
(* worker builds the candidate (pc "map"), reads the flag (pc "full") and  *)
(* drops the candidate and ends the leaf when it is set, and applies the   *)
(* predicate otherwise (pc "find"); a match ends the leaf with the         *)
(* candidate as its item and sets the flag.  The flag read and the         *)
(* predicate are two steps: nothing makes them one atomic access.  The     *)
(* reducer keeps the left result when both sides have one.                 *)
(* A leaf is never empty: LeafEnd(l) >= l.                                 *)
(***************************************************************************)
\* mutant: the workers never look at the flag
full_ignored == FALSE

\* the consumer's full() and take_while's predicate: a load of the flag
full == found

\* An idle worker takes (or steals) a leaf nobody has taken and reads the flag:
\* a leaf taken with the flag set completes with no item.
TakeLeaf(w, l) ==
    /\ main_pc = "search"
    /\ pc[w] = "idle"
    /\ leaf[l].status = "pending"
    /\ IF full \/ l > LeafEnd(l)
       THEN /\ leaf' = [leaf EXCEPT ![l].status = "done"]
            /\ UNCHANGED <<pc, cur>>
       ELSE /\ leaf' = [leaf EXCEPT ![l].status = "running"]
            /\ cur' = [cur EXCEPT ![w] = l]
            /\ pc' = [pc EXCEPT ![w] = "map"]
    /\ UNCHANGED <<cd_vars, problem, sha, splits, block, heap, found, cand,
                   found_block, result, main_pc, evals, hashed, built_late>>

\* the map closure on the leaf's next nonce: block.with_nonce(nonce)
WithNonce(w) ==
    /\ pc[w] = "map"
    /\ LET r == with_nonce(block, leaf[cur[w]].next, heap)
       IN  /\ cand' = [cand EXCEPT ![w] = Some(r.block)]
           /\ heap' = r.heap
    /\ built_late' = [built_late EXCEPT ![w] = found]
    /\ pc' = [pc EXCEPT ![w] = "full"]
    /\ UNCHANGED <<cd_vars, problem, sha, splits, block, found, leaf, cur,
                   found_block, result, main_pc, evals, hashed>>

\* take_while reads the flag: when it is set the candidate is dropped
\* unevaluated and the leaf ends with no item.
Full(w) ==
    /\ pc[w] = "full"
    /\ IF full
       THEN /\ leaf' = [leaf EXCEPT ![cur[w]].status = "done"]
            /\ heap' = Drop(cand[w].val, heap)
            /\ cand' = [cand EXCEPT ![w] = None]
            /\ built_late' = [built_late EXCEPT ![w] = FALSE]
            /\ pc' = [pc EXCEPT ![w] = "idle"]
            /\ cur' = [cur EXCEPT ![w] = 0]
       ELSE /\ pc' = [pc EXCEPT ![w] = "find"]
            /\ UNCHANGED <<leaf, heap, cand, built_late, cur>>
    /\ UNCHANGED <<cd_vars, problem, sha, splits, block, found,
                   found_block, result, main_pc, evals, hashed>>

\* The find_any closure on the candidate: a match becomes the leaf's item,
\* ends the leaf and sets the flag; anything else is dropped, and the leaf
\* goes on to its next nonce or ends when that was its last.
IsBlockValid(w) ==
    /\ pc[w] = "find"
    /\ LET b == cand[w].val
           l == cur[w]
           n == leaf[l].next
           valid == is_block_valid(b, problem.difficulty, heap)
           ends == valid \/ n + 1 > LeafEnd(l)
       IN  /\ found' = (found \/ valid)
           /\ leaf' = [leaf EXCEPT ![l].next = n + 1,
                                   ![l].item = IF valid THEN Some(b) ELSE @,
                                   ![l].status = IF ends THEN "done" ELSE @]
           /\ heap' = IF valid THEN heap ELSE Drop(b, heap)
           /\ evals' = [evals EXCEPT ![n] = @ + 1]
           /\ hashed' = hashed \cup {to_string(b, heap)}
           /\ pc' = [pc EXCEPT ![w] = IF ends THEN "idle" ELSE "map"]
           /\ cur' = [cur EXCEPT ![w] = IF ends THEN 0 ELSE @]
    /\ cand' = [cand EXCEPT ![w] = None]
    /\ built_late' = [built_late EXCEPT ![w] = FALSE]
    /\ UNCHANGED <<cd_vars, problem, sha, splits, block,
                   found_block, result, main_pc>>

Hits == {l \in LeafStarts : leaf[l].item # None}

\* mutant: the reducer prefers the right operand
find_any_rightmost == IF Hits = {} THEN None ELSE leaf[Max(Hits)].item

\* the reducer of find_any, left.or(right): the item of the leftmost leaf that has one
find_any == IF Hits = {} THEN None ELSE leaf[Min(Hits)].item

RECURSIVE DropAll(_, _)
DropAll(ls, h) ==
    IF ls = {} THEN h
    ELSE LET l == Min(ls) IN DropAll(ls \ {l}, Drop(leaf[l].item.val, h))

\* every leaf is done: find_any returns, the items it does not return are dropped
Reduce ==
    /\ main_pc = "search"
    /\ \A l \in LeafStarts : leaf[l].status = "done"
    /\ found_block' = find_any
    /\ heap' = DropAll({l \in Hits : leaf[l].item # find_any}, heap)
    /\ leaf' = [l \in LeafStarts |-> [leaf[l] EXCEPT !.item = None]]
    /\ main_pc' = "match"
    /\ UNCHANGED <<cd_vars, problem, sha, splits, block, found, pc, cur, cand,
                   result, evals, hashed, built_late>>

Ok(nonce) == [tag |-> "Ok", nonce |-> nonce]

Err(msg) == [tag |-> "Err", msg |-> msg]

Panic(msg) == [tag |-> "Panic", msg |-> msg]

\* mutant: found_block.expect(..) in place of the if let / else
solve_result_expect(fb) ==
    IF fb.tag = "Some"
    THEN IF fb.val.nonce.tag = "Some" THEN Ok(fb.val.nonce.val) ELSE Panic("None nonce")
    ELSE Panic("No block found")

\* if let Some(valid_block) = found_block { Ok(.. expect("None nonce")) } else { Err(..) }
solve_result(fb) ==
    IF fb.tag = "Some"
    THEN IF fb.val.nonce.tag = "Some" THEN Ok(fb.val.nonce.val) ELSE Panic("None nonce")
    ELSE Err("No block found")

Return ==
    /\ main_pc = "match"
    /\ result' = solve_result(found_block)
    /\ main_pc' = "done"
    /\ UNCHANGED <<cd_vars, problem, sha, splits, block, heap, found, leaf, pc, cur,
                   cand, found_block, evals, hashed, built_late>>

Next ==
    \/ \E w \in Workers : \E l \in LeafStarts : TakeLeaf(w, l)
    \/ \E w \in Workers : WithNonce(w)
    \/ \E w \in Workers : Full(w)
    \/ \E w \in Workers : IsBlockValid(w)
    \/ Reduce
    \/ Return

Spec == Init /\ [][Next]_vars

FairSpec == Spec /\ WF_vars(Next)

(***************************************************************************)
(* SpecCD: check_difficulty on every digest of at most MaxLen bytes over   *)
(* ByteSample and every difficulty up to MaxExcess beyond its bit length.  *)
(***************************************************************************)
\* A byte of each leading-zero class 8, 7, .., 1, and two of class 0 (0xF0,
\* 0xFF) with bits set below their first set bit.
ByteSample == {0, 1, 2, 4, 8, 16, 32, 64, 240, 255}

Digests == UNION {[1..n -> ByteSample] : n \in 0..MaxLen}

InitCD ==
    /\ hash \in Digests
    /\ cd_difficulty \in 0..(BitLength(hash) + MaxExcess)
    /\ cd_result = FALSE
    /\ cd_pc = "call"
    /\ problem = None
    /\ sha = <<>>
    /\ splits = {}
    /\ block = None
    /\ heap = <<>>
    /\ found = FALSE
    /\ leaf = <<>>
    /\ pc = <<>>
    /\ cur = <<>>
    /\ cand = <<>>
    /\ found_block = None
    /\ result = Running
    /\ main_pc = "off"
    /\ evals = <<>>
    /\ hashed = {}
    /\ built_late = <<>>

CheckDifficulty ==
    /\ cd_pc = "call"
    /\ cd_result' = check_difficulty(hash, cd_difficulty)
    /\ cd_pc' = "returned"
    /\ UNCHANGED <<hash, cd_difficulty, miner_vars>>

NextCD == CheckDifficulty

SpecCD == InitCD /\ [][NextCD]_vars

(***************************************************************************)
(* Claims about check_difficulty (checked under SpecCD).                   *)
(***************************************************************************)
CdReturned == cd_pc = "returned"

\* C1: for every digest (any length, the all-zero digest included) and every
\* difficulty d >= 0, check_difficulty(digest, d) is true exactly when d is at
\* most the number of leading zero bits of the digest: true for d = 0, true
\* for 0..k and false for k+1..8L when the digest has k leading zero bits
\* followed by a set bit, false for every d > 8L.
C1_CheckDifficultyIsLeadingZeroTest ==
    CdReturned => (cd_result <=> cd_difficulty <= LeadingZeroBits(hash))

\* C1 witness: a digest with k leading zero bits followed by a set bit, k not a
\* multiple of 8, accepted at exactly d = k.
C1_Witness ==
    /\ CdReturned
    /\ cd_result
    /\ cd_difficulty = LeadingZeroBits(hash)
    /\ cd_difficulty % 8 # 0
    /\ cd_difficulty > 8
    /\ cd_difficulty < BitLength(hash)

F0Digest == <<0, 0, 0, 240>>

\* C2 as stated: for the digest [0x00, 0x00, 0x00, 0xF0], check_difficulty is
\* true for every difficulty 0..=28 and false for every difficulty 29..=32.
C2_Original ==
    (CdReturned /\ hash = F0Digest /\ cd_difficulty \in 0..32)
        => (cd_result <=> cd_difficulty <= 28)

\* C2 amended: for the digest [0x00, 0x00, 0x00, 0xF0] (24 leading zero bits:
\* 0xF0 has its top bit set), check_difficulty is true for every difficulty
\* 0..=24 and false for every difficulty 25..=32.
C2_F0TrueTo24FalseFrom25 ==
    (CdReturned /\ hash = F0Digest /\ cd_difficulty \in 0..32)
        => (cd_result <=> cd_difficulty <= 24)

\* C2 witness: the digest [0, 0, 0, 0xF0] rejected at difficulty 28.
C2_Witness ==
    /\ CdReturned
    /\ hash = F0Digest
    /\ cd_difficulty = 28
    /\ ~cd_result

(***************************************************************************)
(* Claims about the search (checked under Spec, C5 under FairSpec).        *)
(***************************************************************************)
Done == main_pc = "done"

NotFound == Err("No block found")

\* the candidate Blocks in existence: in flight, kept as a leaf's item, or returned
CandidateBlocks ==
    {cand[w].val : w \in {v \in Workers : cand[v] # None}}
        \cup {leaf[l].item.val : l \in Hits}
        \cup (IF found_block # None THEN {found_block.val} ELSE {})

\* hash(encode(block with nonce n)) has at least `difficulty` leading zero bits
Satisfies(n) ==
    problem.difficulty <= LeadingZeroBits(sha[JsonBlock(problem.block.data, Some(n))])

\* C3 as stated: for any block, the search run with difficulty = 0 returns
\* nonce 0, under every scheduling of the worker pool.
C3_Original == (Done /\ problem.difficulty = 0) => result = Ok(0)

\* C3 amended: with difficulty 0 the search returns Ok(n), never NotFound,
\* where n is the first nonce of one of the sub-ranges the pool split the
\* range into; n is 0 exactly when the candidate with nonce 0 was evaluated
\* (always so when the range is not split), and another sub-range's first
\* nonce when the worker of the first sub-range found the flag already set.
C3_TrivialDifficultyReturnsALeafStart ==
    (Done /\ problem.difficulty = 0)
        => /\ result.tag = "Ok"
           /\ result.nonce \in LeafStarts
           /\ (result.nonce = 0 <=> evals[0] = 1)

\* C3 witness: difficulty 0, two candidates accepted by two workers, nonce 0 returned.
C3_Witness ==
    /\ Done
    /\ problem.difficulty = 0
    /\ result = Ok(0)
    /\ \E n \in 1..MaxNonce : evals[n] = 1

\* C4: whenever the search returns a nonce n, under any interleaving and
\* however many nonces satisfy the difficulty, the block with nonce n satisfies
\* the difficulty predicate; n need not be the smallest satisfying nonce.
C4_ReturnedNonceSatisfiesDifficulty ==
    (Done /\ result.tag = "Ok")
        => /\ result.nonce \in 0..MaxNonce
           /\ Satisfies(result.nonce)

\* C4 witness: several nonces satisfy the difficulty and the one returned is
\* not the smallest of them.
C4_Witness ==
    /\ Done
    /\ result.tag = "Ok"
    /\ problem.difficulty = 9
    /\ \E m \in 0..MaxNonce : m < result.nonce /\ Satisfies(m)

C5_Final ==
    /\ result.tag \in {"Ok", "Err"}
    /\ (result = NotFound) <=> (\A n \in 0..MaxNonce : ~Satisfies(n))
    /\ (result.tag = "Err") => (result = NotFound /\ \A n \in 0..MaxNonce : evals[n] >= 1)
    /\ (result.tag = "Ok") => result.nonce \in 0..MaxNonce
    /\ (problem.difficulty > 16) => result = NotFound

\* C5: the search always terminates, and reports NotFound exactly when no
\* nonce of the range satisfies the difficulty: then every candidate was
\* evaluated before and no sentinel nonce is returned; with a satisfying
\* candidate it never reports NotFound; a difficulty above the digest's bit
\* length yields NotFound.
C5_TerminatesAndNotFoundIffNoneSatisfies ==
    /\ <>Done
    /\ [](Done => C5_Final)

\* C5 witness: NotFound for a difficulty above the digest's bit length.
C5_Witness ==
    /\ Done
    /\ result = NotFound
    /\ problem.difficulty > 16
    /\ \A n \in 0..MaxNonce : evals[n] = 1

C7_Claim ==
    /\ \A b \in CandidateBlocks : b.data.alloc = block.data.alloc
    /\ Cardinality(DOMAIN heap) = 1

C8_ResultStaysAccepted ==
    found =>
        /\ main_pc = "search" => (find_any # None /\ Satisfies(find_any.val.nonce.val))
        /\ main_pc = "match" => (found_block # None /\ Satisfies(found_block.val.nonce.val))
        /\ Done => (result.tag = "Ok" /\ Satisfies(result.nonce))

C9_TemplateUnchangedCandidatesShareEntries ==
    /\ block.nonce = problem.block.nonce
    /\ Deref(block.data, heap) = problem.block.data
    /\ \A b \in CandidateBlocks : Deref(b.data, heap) = problem.block.data
    /\ \A b1, b2 \in CandidateBlocks : b1 # b2 => b1.nonce # b2.nonce

\* C9 witness: two candidates of a two-entry template exist at once.
C9_Witness ==
    /\ Len(problem.block.data) = 2
    /\ Cardinality(CandidateBlocks) >= 2
    /\ \E w \in Workers : pc[w] = "find"

\* C10: every candidate evaluated or returned has nonce = Some(n) with
\* 0 <= n <= i32::MAX whatever the input block's nonce field; the strings
\* hashed never contain the input nonce, and expect("None nonce") never fails.
C10_CandidateNonceInRange ==
    /\ \A b \in CandidateBlocks : b.nonce.tag = "Some" /\ b.nonce.val \in 0..MaxNonce
    /\ hashed \subseteq HashInputs(problem)
    /\ result.tag # "Panic"
    /\ (result.tag = "Ok") => result.nonce \in 0..MaxNonce

\* C10 witness: an answer returned for a problem whose block had no nonce.
C10_Witness ==
    /\ Done
    /\ result.tag = "Ok"
    /\ problem.block.nonce = None
    /\ found_block.val.nonce = Some(result.nonce)

====
